---- MODULE Spec2Model ----
(***************************************************************************)
(* finddup.py: find duplicate files by size, then by successive digests.   *)
(* The model follows one run of the program from the end of argument       *)
(* parsing (src/finddup.py:313) to the return of                           *)
(* get_duplicates_dictionary, a fatal sys.exit, or an uncaught exception.  *)
(***************************************************************************)
EXTENDS Integers, Sequences, FiniteSets, TLC

(* ---------------- bounds of the model ---------------- *)
\* at most this many directory entries (odd ones in the root, even ones in
\* the subdirectory of the root)
MaxEntries == 3
\* at most this many names in the --digests list
MaxAlgs == 2

(* ---------------- the environment: file system and platform ----------- *)
\* file contents: the empty file, "X" and "Y" (one byte each)
Contents == { <<>>, <<"X">>, <<"Y">> }
\* the subdirectory of the root: a plain directory, a directory that is a
\* mount point, or a symbolic link to a directory
SubKinds == { "dir", "mount", "link" }
\* an entry listed in `filenames` by os.walk: a regular file of any content,
\* a symbolic link to a file, or a regular file that is a mount point (bind
\* mount); a link and a mounted file stand for an empty file
EntryStates ==
  [ kind : { "file" }, content : Contents ]
    \cup [ kind : { "link", "mount" }, content : { <<>> } ]
\* names that may be given with --digests; "bogus" stands for any name the
\* platform does not know
DigestNames == { "sha1", "md5", "bogus" }
\* hashlib.algorithms_available
algorithms_available == { "sha1", "md5" }

VARIABLES
  entries,   \* the directory entries: 1..n -> [kind, content]
  tree,      \* [root : is the root argument a directory, sub : SubKinds]
  gone,      \* entries removed (or made unreadable) since the program started
  digests,   \* args.digests after the split at line 310
  pc,        \* position of the main program
  dict_out,  \* dict_out of get_duplicates_dictionary
  i,         \* number of completed iterations of the loop at line 229
  io         \* file system operations performed so far

vars == << entries, tree, gone, digests, pc, dict_out, i, io >>

\* defaultdict( set ) with no key
EmptyDict == [ k \in {} |-> {} ]

\* the sets of a dictionary of sets
Values(d) == { d[k] : k \in DOMAIN d }

\* all file names held by a dictionary of sets
Members(d) == UNION Values(d)

\* os.path.join(dirpath, filename): odd entries are in the root, even ones
\* in the subdirectory
dirpath(e) == IF e % 2 = 0 THEN "sub" ELSE "root"
full_path(e) == << dirpath(e), e >>
entry_of(path) == path[2]

\* the entries os.walk(path) lists in `filenames`: those of the root and,
\* since followlinks is off, those of the subdirectory unless it is a
\* symbolic link (a mounted directory is walked like any other)
walk_filenames ==
  { e \in DOMAIN entries : dirpath(e) = "root" \/ tree.sub # "link" }

\* variant: the test applied to the bare file name, which never names a link
islink_of_filename(path) == FALSE

islink(path) == entries[entry_of(path)].kind = "link"
ismount(path) == entries[entry_of(path)].kind = "mount"

\* os.path.getsize: the size, or OSError when the file is gone
getsize(path) ==
  IF entry_of(path) \in gone
  THEN [ raised |-> "OSError", value |-> 0 ]
  ELSE [ raised |-> "none", value |-> Len(entries[entry_of(path)].content) ]

\* hashlib: hexdigest of a content under an algorithm
hexdigest(digest_name, content) ==
  CASE digest_name = "sha1" /\ content = <<>>    -> "da39a3ee5e6b4b0d3255bfef95601890afd80709"
    [] digest_name = "sha1" /\ content = <<"X">> -> "c032adc1ff629c9b66f22749ad667e6beadf144b"
    [] digest_name = "sha1" /\ content = <<"Y">> -> "23eb4d3f4155395a74e9d534f97ff4c1908f5aac"
    [] digest_name = "md5" /\ content = <<>>     -> "d41d8cd98f00b204e9800998ecf8427e"
    [] digest_name = "md5" /\ content = <<"X">>  -> "02129bb861061d1a052c592e2dc6b383"
    [] digest_name = "md5" /\ content = <<"Y">>  -> "57cec4137b614c87cb4e24a3d003a3e0"

\* get_digest: hashlib.new raises ValueError for an unknown name, open
\* raises OSError for a file that is gone; otherwise the hex digest
get_digest(filename, digest_name) ==
  IF digest_name \notin algorithms_available
  THEN [ raised |-> "ValueError", value |-> "" ]
  ELSE IF entry_of(filename) \in gone
  THEN [ raised |-> "OSError", value |-> "" ]
  ELSE [ raised |-> "none",
         value |-> hexdigest(digest_name, entries[entry_of(filename)].content) ]

\* dict[ key ].add( filename ) on a defaultdict( set )
dict_add(d, key, filename) ==
  [ k \in DOMAIN d \cup { key } |->
      IF k = key
      THEN (IF key \in DOMAIN d THEN d[key] ELSE {}) \cup { filename }
      ELSE d[k] ]

\* del dict[ key ]
dict_del(d, key) == [ k \in DOMAIN d \ { key } |-> d[k] ]

(* ---------------- get_dict_of_files_by_size ---------------- *)
\* the loop over `filenames`, entries taken in some order
RECURSIVE scan_loop(_, _)
scan_loop(d, todo) ==
  IF todo = {} THEN d
  ELSE LET e == CHOOSE x \in todo : TRUE
           path == full_path(e)
           size == getsize(path)
       IN  IF islink(path) THEN scan_loop(d, todo \ { e })
           ELSE IF ismount(path) THEN scan_loop(d, todo \ { e })
           ELSE IF size.raised = "OSError" THEN scan_loop(d, todo \ { e })
           ELSE scan_loop(dict_add(d, << size.value >>, path), todo \ { e })

get_dict_of_files_by_size ==
  IF ~tree.root THEN EmptyDict
  ELSE scan_loop(EmptyDict, walk_filenames)

\* the entries whose size the scan asks for
scan_sized ==
  IF ~tree.root THEN {}
  ELSE { e \in walk_filenames :
           ~islink(full_path(e)) /\ ~ismount(full_path(e)) }

(* ---------------- prune_dict_by_size_of_set ---------------- *)
\* the loop over the snapshot tuple( dict_of_sets.items() )
RECURSIVE prune_loop(_, _, _)
prune_loop(d, items, min_length) ==
  IF items = {} THEN d
  ELSE LET key == CHOOSE k \in items : TRUE
       IN  IF Cardinality(d[key]) >= min_length
           THEN prune_loop(d, items \ { key }, min_length)
           ELSE prune_loop(dict_del(d, key), items \ { key }, min_length)

\* variant: "len( values ) > min_length" in the test of the loop
RECURSIVE prune_loop_gt(_, _, _)
prune_loop_gt(d, items, min_length) ==
  IF items = {} THEN d
  ELSE LET key == CHOOSE k \in items : TRUE
       IN  IF Cardinality(d[key]) > min_length
           THEN prune_loop_gt(d, items \ { key }, min_length)
           ELSE prune_loop_gt(dict_del(d, key), items \ { key }, min_length)

prune_strictly_greater(dict_of_sets, min_length) ==
  prune_loop_gt(dict_of_sets, DOMAIN dict_of_sets, min_length)

\* variant: the loop ends after the first deletion
RECURSIVE prune_loop_first(_, _, _)
prune_loop_first(d, items, min_length) ==
  IF items = {} THEN d
  ELSE LET key == CHOOSE k \in items : TRUE
       IN  IF Cardinality(d[key]) >= min_length
           THEN prune_loop_first(d, items \ { key }, min_length)
           ELSE dict_del(d, key)

prune_first_only(dict_of_sets, min_length) ==
  prune_loop_first(dict_of_sets, DOMAIN dict_of_sets, min_length)

prune_dict_by_size_of_set(dict_of_sets, min_length) ==
  prune_loop(dict_of_sets, DOMAIN dict_of_sets, min_length)

(* ---------------- extend_dict_with_digest ---------------- *)
\* the two loops at lines 134-142 over the (key, filename) pairs; the call
\* of get_digest is outside the try block, so whatever it raises leaves the
\* function
\* variant: the digest overwrites the last element of the key
RECURSIVE extend_loop_overwrite(_, _, _)
extend_loop_overwrite(d, todo, digest_algorithm) ==
  IF todo = {} THEN [ raised |-> "none", dict |-> d ]
  ELSE LET item == CHOOSE x \in todo : TRUE
           key == item[1]
           filename == item[2]
           digest_value == get_digest(filename, digest_algorithm)
           key_out == [ key EXCEPT ![Len(key)] = digest_value.value ]
       IN  IF digest_value.raised # "none"
           THEN [ raised |-> digest_value.raised, dict |-> EmptyDict ]
           ELSE extend_loop_overwrite(dict_add(d, key_out, filename),
                                      todo \ { item }, digest_algorithm)

RECURSIVE extend_loop(_, _, _)
extend_loop(d, todo, digest_algorithm) ==
  IF todo = {} THEN [ raised |-> "none", dict |-> d ]
  ELSE LET item == CHOOSE x \in todo : TRUE
           key == item[1]
           filename == item[2]
           digest_value == get_digest(filename, digest_algorithm)
           key_out == Append(key, digest_value.value)
       IN  IF digest_value.raised # "none"
           THEN [ raised |-> digest_value.raised, dict |-> EmptyDict ]
           ELSE extend_loop(dict_add(d, key_out, filename), todo \ { item },
                            digest_algorithm)

\* raised is "none" (dict is the result), "SystemExit" (sys.exit at line
\* 131), or the exception that leaves the function: IndexError from
\* random.choice on an empty list, or what get_digest raised
extend_dict_with_digest(dict_in, digest_algorithm) ==
  IF DOMAIN dict_in = {}
  THEN [ raised |-> "IndexError", dict |-> EmptyDict ]
  ELSE IF \E one_key \in DOMAIN dict_in :
            \E key_elem \in DOMAIN dict_in : Len(key_elem) # Len(one_key)
  THEN [ raised |-> "SystemExit", dict |-> EmptyDict ]
  ELSE extend_loop(EmptyDict,
                   { item \in (DOMAIN dict_in) \X Members(dict_in) :
                       item[2] \in dict_in[item[1]] },
                   digest_algorithm)

(* ---------------- verify_digests ---------------- *)
\* TRUE when the loop ends without sys.exit
\* variant: only the first name of the list is tested
verify_first_only(digest_list) ==
  digest_list = << >> \/ Head(digest_list) \in algorithms_available

RECURSIVE verify_digests(_)
verify_digests(digest_list) ==
  IF digest_list = << >> THEN TRUE
  ELSE IF Head(digest_list) \notin algorithms_available THEN FALSE
  ELSE verify_digests(Tail(digest_list))

(* ---------------- get_duplicates_dictionary ---------------- *)
\* the loop at lines 229-231 on a list of algorithms, as one computation
RECURSIVE digest_stages(_, _)
digest_stages(d, digest_algorithm_list) ==
  IF digest_algorithm_list = << >> THEN [ raised |-> "none", dict |-> d ]
  ELSE LET r == extend_dict_with_digest(d, Head(digest_algorithm_list))
       IN  IF r.raised # "none" THEN r
           ELSE digest_stages(prune_dict_by_size_of_set(r.dict, 2),
                              Tail(digest_algorithm_list))

get_duplicates_dictionary(digest_algorithm_list) ==
  digest_stages(prune_dict_by_size_of_set(get_dict_of_files_by_size, 2),
                digest_algorithm_list)

(* ---------------- the run ---------------- *)
Init ==
  /\ \E n \in 0..MaxEntries :
        entries \in [ 1..n -> EntryStates ]
  /\ tree \in [ root : BOOLEAN, sub : SubKinds ]
  /\ gone = {}
  /\ \E n \in 1..MaxAlgs : digests \in [ 1..n -> DigestNames ]
  /\ pc = "verify"
  /\ dict_out = EmptyDict
  /\ i = 0
  /\ io = {}

\* line 313
Verify ==
  /\ pc = "verify"
  /\ pc' = IF verify_digests(digests) THEN "scan" ELSE "exit"
  /\ UNCHANGED << entries, tree, gone, digests, dict_out, i, io >>

\* line 224
Scan ==
  /\ pc = "scan"
  /\ dict_out' = get_dict_of_files_by_size
  /\ io' = io \cup (IF tree.root THEN { "walk" } ELSE {})
              \cup (IF scan_sized # {} THEN { "getsize" } ELSE {})
  /\ pc' = "prune0"
  /\ UNCHANGED << entries, tree, gone, digests, i >>

\* line 225
Prune0 ==
  /\ pc = "prune0"
  /\ dict_out' = prune_dict_by_size_of_set(dict_out, 2)
  /\ pc' = "refine"
  /\ UNCHANGED << entries, tree, gone, digests, i, io >>

\* line 230
Refine ==
  /\ pc = "refine"
  /\ LET r == extend_dict_with_digest(dict_out, digests[i + 1])
     IN  /\ pc' = CASE r.raised = "none" -> "prune"
                    [] r.raised = "SystemExit" -> "exit"
                    [] OTHER -> "crashed"
         /\ dict_out' = IF r.raised = "none" THEN r.dict ELSE dict_out
         /\ i' = IF r.raised = "none" THEN i + 1 ELSE i
         /\ io' = io \cup (IF \E p \in Members(dict_out) :
                                 get_digest(p, digests[i + 1]).raised = "none"
                           THEN { "read" } ELSE {})
  /\ UNCHANGED << entries, tree, gone, digests >>

\* line 231, then the loop test at line 229 and the return at line 233
Prune ==
  /\ pc = "prune"
  /\ dict_out' = prune_dict_by_size_of_set(dict_out, 2)
  /\ pc' = IF i < Len(digests) THEN "refine" ELSE "done"
  /\ UNCHANGED << entries, tree, gone, digests, i, io >>

\* the environment removes a regular file (or makes it unreadable) while
\* the program runs: before the scan, or between the scan and a digest
\* stage (the prune steps read no file, a removal during one is a removal
\* before the next stage)
Vanish ==
  /\ pc \in { "scan", "refine" }
  /\ \E e \in DOMAIN entries \ gone :
        /\ entries[e].kind = "file"
        /\ gone' = gone \cup { e }
  /\ UNCHANGED << entries, tree, digests, pc, dict_out, i, io >>

Next == Verify \/ Scan \/ Prune0 \/ Refine \/ Prune \/ Vanish

Spec == Init /\ [][Next]_vars

(* ======================= properties ======================= *)
\* the paths of `d` whose file is gone
GoneMembers(d) == { p \in Members(d) : entry_of(p) \in gone }

\* the fingerprint (size, digest_1, ..., digest_N) of an entry under a list
\* of algorithms
Fingerprint(e, algs) ==
  << Len(entries[e].content) >>
    \o [ j \in 1..Len(algs) |-> hexdigest(algs[j], entries[e].content) ]

\* the classes of equal fingerprint with two members or more, among the
\* files the scan sized
DuplicateClasses(algs) ==
  { c \in { { full_path(f) : f \in { g \in scan_sized :
                  Fingerprint(g, algs) = Fingerprint(e, algs) } } :
            e \in scan_sized } :
      Cardinality(c) >= 2 }

\* the orderings of a list
Orderings(algs) ==
  { [ j \in 1..Len(algs) |-> algs[f[j]] ] :
      f \in { g \in [ 1..Len(algs) -> 1..Len(algs) ] :
                \A a, b \in 1..Len(algs) : a # b => g[a] # g[b] } }

\* C1: when the digest of a path fails with an I/O error during a
\* refinement, the refinement still returns normally and its output holds
\* exactly the paths whose digest succeeded.
C1_DigestFailureDropsPath ==
  [][ (pc = "refine" /\ pc' # pc /\ GoneMembers(dict_out) # {})
        => (/\ pc' = "prune"
            /\ Members(dict_out') = Members(dict_out) \ GoneMembers(dict_out))
    ]_vars

\* C2: a refinement of an empty grouping completes normally and gives the
\* empty grouping, so that a run whose grouping is empty after a prune ends
\* with the empty grouping.
C2_EmptyGroupingCompletes ==
  [][ (pc = "refine" /\ pc' # pc /\ DOMAIN dict_out = {})
        => (pc' = "prune" /\ DOMAIN dict_out' = {}) ]_vars

\* C3: when no file is removed, a run with a validated algorithm list
\* returns exactly the classes of equal (size, digest_1, ..., digest_N) of
\* the scanned files that have two members or more, each under its
\* fingerprint.
C3_ExactDuplicateClasses ==
  (pc \in { "done", "crashed" } /\ gone = {})
    => /\ pc = "done"
       /\ Values(dict_out) = DuplicateClasses(digests)
       /\ \A key \in DOMAIN dict_out : \A p \in dict_out[key] :
             key = Fingerprint(entry_of(p), digests)

\* C4: when no file is removed, the run completes and every ordering of the
\* algorithm list completes as well and returns the same family of path sets.
C4_OrderIndependent ==
  (pc \in { "done", "crashed" } /\ gone = {})
    => /\ pc = "done"
       /\ \A algs \in Orderings(digests) :
             LET r == get_duplicates_dictionary(algs)
             IN  r.raised = "none" /\ Values(r.dict) = Values(dict_out)

\* C5: a prune step removes exactly the entries whose path set has fewer
\* than 2 members and keeps every other entry unchanged, so every path set
\* left by a prune step has 2 members or more.
C5_PruneExact ==
  [][ (pc \in { "prune0", "prune" } /\ pc' # pc)
        => (/\ DOMAIN dict_out' =
                 { key \in DOMAIN dict_out : ~(Cardinality(dict_out[key]) < 2) }
            /\ \A key \in DOMAIN dict_out' : dict_out'[key] = dict_out[key]
            /\ \A key \in DOMAIN dict_out' : Cardinality(dict_out'[key]) >= 2)
    ]_vars

\* a prune step has removed a singleton and kept a group: the run is done
\* with a group, and a file the scan sized is in no group
C5_Witness ==
  /\ pc = "done"
  /\ DOMAIN dict_out # {}
  /\ gone = {}
  /\ \E e \in scan_sized : full_path(e) \notin Members(dict_out)

\* C6: pruning the pruned grouping gives the pruned grouping.
C6_PruneIdempotent ==
  prune_dict_by_size_of_set(prune_dict_by_size_of_set(dict_out, 2), 2)
    = prune_dict_by_size_of_set(dict_out, 2)

\* the grouping the scan hands to the first prune holds a singleton and a
\* group of two
C6_Witness ==
  /\ pc = "prune0"
  /\ \E k1, k2 \in DOMAIN dict_out :
        /\ Cardinality(dict_out[k1]) < 2
        /\ Cardinality(dict_out[k2]) >= 2

\* C7: every fingerprint of the grouping has length k + 1 after k
\* refinements (1 after the scan), and each fingerprint a refinement puts a
\* path under is the fingerprint the path had, with the digest of the path
\* appended.
C7_FingerprintLength ==
  [][ /\ \A key \in DOMAIN dict_out' : Len(key) = i' + 1
      /\ (pc = "refine" /\ pc' = "prune")
           => \A key_out \in DOMAIN dict_out' : \A p \in dict_out'[key_out] :
                 \E key \in DOMAIN dict_out :
                    /\ p \in dict_out[key]
                    /\ Len(key_out) = Len(key) + 1
                    /\ SubSeq(key_out, 1, Len(key)) = key
                    /\ key_out[Len(key_out)] =
                         get_digest(p, digests[i + 1]).value
    ]_vars

\* the second refinement has returned a group, under a fingerprint of
\* length 3
C7_Witness ==
  /\ pc = "prune"
  /\ i = 2
  /\ \E key \in DOMAIN dict_out :
        Len(key) = 3 /\ Cardinality(dict_out[key]) >= 2

\* C8: no symbolic link is a member of any group, in the scanner output and
\* in every later grouping.
C8_NoLinkInGroup ==
  \A p \in Members(dict_out) : entries[entry_of(p)].kind # "link"

\* the scan has walked a tree with a link and a regular file and has put
\* the file in a group
C8_Witness ==
  /\ pc = "prune0"
  /\ \E e \in walk_filenames : entries[e].kind = "link"
  /\ Members(dict_out) # {}

\* C9: no mount point, and nothing below a directory that is a mount point,
\* is a member of any group.
C9_NoMountInGroup ==
  \A p \in Members(dict_out) :
     /\ entries[entry_of(p)].kind # "mount"
     /\ ~(dirpath(entry_of(p)) = "sub" /\ tree.sub = "mount")

\* C10: in a run whose list holds an unsupported name, no root is walked, no
\* file is sized or read, and the run is at its start or has ended with the
\* fatal exit.
C10_ValidatedBeforeScan ==
  (\E j \in 1..Len(digests) : digests[j] \notin algorithms_available)
    => /\ io = {}
       /\ pc \in { "verify", "exit" }
       /\ dict_out = EmptyDict

\* the run has ended with the fatal exit on a list whose first name is
\* supported and whose second name is not
C10_Witness ==
  /\ pc = "exit"
  /\ Len(digests) >= 2
  /\ digests[1] \in algorithms_available
  /\ digests[2] \notin algorithms_available
  /\ io = {}

====
